---- MODULE Spec2Model ----
(***************************************************************************)
(* BufferedSerial2: a serial port with software ring buffers, a receive    *)
(* interrupt that fills _rxbuf and a transmit interrupt / prime() pair     *)
(* that drains _txbuf into the UART.                                       *)
(*                                                                         *)
(* The foreground is one sequential context (pc); an interrupt handler     *)
(* preempts it between two of its steps and runs to its end before the     *)
(* foreground continues (isr).  The UART is an environment: it shifts out  *)
(* the bytes it was given and raises the interrupts.                       *)
(*                                                                         *)
(* The ring buffer (CircularBuffer2.h) is not among the sources; it is     *)
(* modelled from its description: a pool, a read index, a write index and  *)
(* a count, with no lock, every index/count update one indivisible step.   *)
(***************************************************************************)
EXTENDS Integers, Sequences, FiniteSets, TLC

\* ---------------------------------------------------------------- bounds
TxCap == 2          \* capacity of the tx ring buffer (tx_buf_size)
RxCap == 2          \* capacity of the rx ring buffer (rx_buf_size)
HwDepth == 1        \* bytes the UART holds before serial_writable is false
MaxLen == 3         \* longest string / block handed to puts / write
MaxEnq == 4         \* bytes enqueued into _txbuf over one run
MaxCalls == 2       \* foreground write-family calls over one run
MaxRecv == 4        \* bytes the UART receives over one run
MaxRxCalls == 5     \* foreground readable / getc calls over one run

\* ------------------------------------------------------------- constants
NL == 10            \* '\n', appended by puts

\* a pointer argument: NULL, or the bytes it points at
NULL == [null |-> TRUE, data |-> <<>>]

Ptr(bytes) == [null |-> FALSE, data |-> bytes]

VARIABLES
    _txbuf,          \* mbed::CircularBuffer2<char> _txbuf
    _rxbuf,          \* mbed::CircularBuffer2<char> _rxbuf
    m_block_on_full, \* bool m_block_on_full
    txAttached,      \* TxIrq handler attached (ENABLED) or not (DISABLED)
    rxAttached,      \* RxIrq handler attached
    hwFifo,          \* bytes the UART transmitter currently holds
    hwOut,           \* bytes handed to serial_putc, in order
    pc,              \* foreground position
    cur,             \* the running call: op, arg, bytes left, bytes taken
    c,               \* the char being pushed / popped by the foreground
    ovw,             \* the running push found the buffer full
    retval,          \* value returned by the last completed call
    isr,             \* interrupt handler running: "idle", "txIrq"
    ncalls,          \* calls made so far
    txEnq,           \* history: bytes stored into _txbuf, in order
    landedFull,      \* history: some push found _txbuf full
    writers,         \* history: contexts that wrote to the UART
    drainedInCall,   \* history: _txbuf was popped since the running call began
    primed,          \* history: what the last prime() did
    rxHw,            \* the UART's receive register: <<>> or <<byte>>
    rxIn,            \* history: bytes the RxIrq handler pushed, in order
    rxOut,           \* history: values getc returned, in order
    rxLanded,        \* history: a received byte found _rxbuf full
    checked,         \* the call just before was readable() and returned true
    rxUnchecked,     \* history: some getc was not preceded by such a call
    rxRaced,         \* history: the handler pushed between the steps of a getc
    rxRun            \* history: pushes in a row with no pop, getc's after them

vars == << _txbuf, _rxbuf, m_block_on_full, txAttached, rxAttached, hwFifo,
           hwOut, pc, cur, c, ovw, retval, isr, ncalls, txEnq, landedFull,
           writers, drainedInCall, primed, rxHw, rxIn, rxOut, rxLanded,
           checked, rxUnchecked, rxRaced, rxRun >>

\* ------------------------------------------------- CircularBuffer2<char>
NewBuffer(cap) ==
    [pool |-> [i \in 0..(cap - 1) |-> 0], rd |-> 0, wr |-> 0, count |-> 0]

Cap(b) == Cardinality(DOMAIN b.pool)

\* full() told from the indices alone
fullByIndices(b) == b.rd = b.wr

full(b) == b.count = Cap(b)

empty(b) == b.count = 0

\* push on a full buffer that leaves the read index where it is
KeepOldest(b) == b

\* the steps of push(v), in order
DropOldest(b) == [b EXCEPT !.rd = (b.rd + 1) % Cap(b)]

Store(b, v) == [b EXCEPT !.pool[b.wr] = v]

AdvWrite(b) == [b EXCEPT !.wr = (b.wr + 1) % Cap(b)]

IncCount(b) == [b EXCEPT !.count = b.count + 1]

push(b, v) ==
    IF full(b)
    THEN AdvWrite(Store(DropOldest(b), v))
    ELSE IncCount(AdvWrite(Store(b, v)))

\* the steps of pop(), in order
Load(b) == b.pool[b.rd]

AdvRead(b) == [b EXCEPT !.rd = (b.rd + 1) % Cap(b)]

DecCount(b) == [b EXCEPT !.count = b.count - 1]

pop(b) ==
    IF empty(b)
    THEN [ok |-> FALSE, val |-> 0, buf |-> b]
    ELSE [ok |-> TRUE, val |-> Load(b), buf |-> DecCount(AdvRead(b))]

\* the unread elements, oldest first, as the indices and the count give them
Contents(b) == [i \in 1..b.count |-> b.pool[(b.rd + i - 1) % Cap(b)]]

\* ------------------------------------------------------------------ UART
serial_writable == hwFifo < HwDepth

\* ------------------------------------------------------------ foreground
\* op, arg, null, len, rest, n, nl: the call and its locals; the others are
\* history of the call: str, the bytes its argument pointed at; base, how many
\* bytes had been stored (tx) or taken from the UART (rx) when it began;
\* primes, how often it has entered prime(); before, _rxbuf as its pop found it
NoCall ==
    [op |-> "none", arg |-> 0, null |-> FALSE, len |-> 0, rest |-> <<>>,
     n |-> 0, nl |-> FALSE, str |-> <<>>, base |-> 0, primes |-> 0,
     before |-> NewBuffer(RxCap)]

\* the bytes a caller hands over: fresh values, so that order, loss and
\* duplication show in the histories
Fresh(len) == [i \in 1..len |-> Len(txEnq) + i]

ToChar(x) == x % 256

Init ==
    /\ _txbuf = NewBuffer(TxCap)
    /\ _rxbuf = NewBuffer(RxCap)
    /\ m_block_on_full \in BOOLEAN
    /\ txAttached = FALSE
    /\ rxAttached = TRUE
    /\ hwFifo = 0
    /\ hwOut = <<>>
    /\ pc = "idle"
    /\ cur = NoCall
    /\ c = 0
    /\ ovw = FALSE
    /\ retval = 0
    /\ isr = "idle"
    /\ ncalls = 0
    /\ txEnq = <<>>
    /\ landedFull = FALSE
    /\ writers = {}
    /\ drainedInCall = FALSE
    /\ primed = "none"
    /\ rxHw = <<>>
    /\ rxIn = <<>>
    /\ rxOut = <<>>
    /\ rxLanded = FALSE
    /\ checked = FALSE
    /\ rxUnchecked = FALSE
    /\ rxRaced = FALSE
    /\ rxRun = [pushes |-> 0, pops |-> 0]

rxSide == << _rxbuf, rxAttached, rxHw, rxIn, rxOut, rxLanded, checked,
            rxUnchecked, rxRaced, rxRun >>

txSide == << _txbuf, m_block_on_full, txAttached, hwFifo, hwOut, ovw, txEnq,
            landedFull, writers, drainedInCall, primed >>

history == << txEnq, landedFull, writers, drainedInCall, primed >>

Foreground(at) == pc = at /\ isr = "idle"

CanCall(bytes) ==
    /\ Foreground("idle")
    /\ ncalls < MaxCalls
    /\ Len(txEnq) + bytes <= MaxEnq

\* the loops with prime() inside them, called after every byte
LoopPcPrimesEachByte(call) ==
    IF call.n = 0 /\ call.rest # <<>> THEN "spin"
    ELSE IF call.rest = <<>> /\ call.op = "puts" /\ ~call.nl THEN "puts_nl"
    ELSE "prime_check"

\* where the call goes after a byte is in the buffer (or at its start):
\* the loop test of puts / write, then the terminator, then prime()
LoopPc(call) ==
    IF call.rest # <<>> THEN "spin"
    ELSE IF call.op = "puts" /\ ~call.nl THEN "puts_nl"
    ELSE "prime_check"

\* the spin without the flag: while (_txbuf.full());
SpinCondIgnoresFlag == full(_txbuf)

\* while (m_block_on_full && _txbuf.full());
SpinCond == m_block_on_full /\ full(_txbuf)

\* int putc(int c)
putc(ch) ==
    /\ CanCall(1)
    /\ cur' = [NoCall EXCEPT !.op = "putc", !.arg = ch, !.len = 1,
                             !.rest = <<ToChar(ch)>>, !.str = <<ToChar(ch)>>,
                             !.base = Len(txEnq)]
    /\ pc' = "spin"
    /\ ncalls' = ncalls + 1
    /\ drainedInCall' = FALSE
    /\ UNCHANGED << _txbuf, m_block_on_full, txAttached, hwFifo, hwOut, c, ovw,
                    retval, isr, txEnq, landedFull, writers, primed, rxSide >>

\* the test at the head of puts: if (s != NULL)
PutsEnters(s) == ~s.null

\* int puts(const char *s)
puts(s) ==
    /\ CanCall(IF s.null THEN 0 ELSE Len(s.data) + 1)
    /\ ncalls' = ncalls + 1
    /\ drainedInCall' = FALSE
    /\ IF PutsEnters(s)
       THEN /\ cur' = [NoCall EXCEPT !.op = "puts", !.len = Len(s.data),
                                     !.rest = s.data, !.str = s.data,
                                     !.base = Len(txEnq)]
            /\ pc' = LoopPc(cur')
            /\ UNCHANGED retval
       ELSE /\ cur' = [NoCall EXCEPT !.op = "puts", !.null = s.null,
                                     !.base = Len(txEnq)]
            /\ pc' = "idle"
            /\ retval' = 0
    /\ UNCHANGED << _txbuf, m_block_on_full, txAttached, hwFifo, hwOut, c, ovw,
                    isr, txEnq, landedFull, writers, primed, rxSide >>

\* the test without the length: if (s != NULL)
WriteEntersOnNonNull(s, length) == ~s.null

\* the test at the head of write: if (s != NULL && length > 0)
WriteEnters(s, length) == ~s.null /\ length > 0

\* ssize_t write(const void *s, size_t length)
write(s, length) ==
    /\ CanCall(IF s.null THEN 0 ELSE length)
    /\ ncalls' = ncalls + 1
    /\ drainedInCall' = FALSE
    /\ IF WriteEnters(s, length)
       THEN /\ cur' = [NoCall EXCEPT !.op = "write", !.len = length,
                                     !.rest = SubSeq(s.data, 1, length),
                                     !.str = SubSeq(s.data, 1, length),
                                     !.base = Len(txEnq)]
            /\ pc' = LoopPc(cur')
            /\ UNCHANGED retval
       ELSE /\ cur' = [NoCall EXCEPT !.op = "write", !.null = s.null,
                                     !.len = length, !.base = Len(txEnq)]
            /\ pc' = "idle"
            /\ retval' = 0
    /\ UNCHANGED << _txbuf, m_block_on_full, txAttached, hwFifo, hwOut, c, ovw,
                    isr, txEnq, landedFull, writers, primed, rxSide >>

\* leaving the spin, taking the next byte: _txbuf.push(*(ptr++)) begins
SpinExit ==
    /\ Foreground("spin")
    /\ ~SpinCond
    /\ c' = Head(cur.rest)
    /\ cur' = [cur EXCEPT !.rest = Tail(cur.rest), !.n = cur.n + 1]
    /\ pc' = "push_test"
    /\ UNCHANGED << _txbuf, m_block_on_full, txAttached, hwFifo, hwOut, ovw,
                    retval, isr, ncalls, history, rxSide >>

\* _txbuf.push('\n') of puts: no spin before it
PutsNl ==
    /\ Foreground("puts_nl")
    /\ c' = NL
    /\ cur' = [cur EXCEPT !.nl = TRUE]
    /\ pc' = "push_test"
    /\ UNCHANGED << _txbuf, m_block_on_full, txAttached, hwFifo, hwOut, ovw,
                    retval, isr, ncalls, history, rxSide >>

\* sync() that returns without looking at the buffer
SyncCondNever == FALSE

\* while(!_txbuf.empty());
SyncCond == ~empty(_txbuf)

\* virtual int sync(): the call begins; base is what the UART had been given
sync ==
    /\ Foreground("idle")
    /\ cur' = [NoCall EXCEPT !.op = "sync", !.base = Len(hwOut)]
    /\ pc' = "sync_spin"
    /\ UNCHANGED << c, retval, isr, ncalls, txSide, rxSide >>

\* sync() leaves its loop: return 0
SyncExit ==
    /\ Foreground("sync_spin")
    /\ ~SyncCond
    /\ retval' = 0
    /\ pc' = "idle"
    /\ UNCHANGED << cur, c, isr, ncalls, txSide, rxSide >>

\* push, step 1: if (full())
PushTest ==
    /\ Foreground("push_test")
    /\ ovw' = full(_txbuf)
    /\ landedFull' = (landedFull \/ full(_txbuf))
    /\ pc' = IF full(_txbuf) THEN "push_drop" ELSE "push_store"
    /\ UNCHANGED << _txbuf, m_block_on_full, txAttached, hwFifo, hwOut, cur, c,
                    retval, isr, ncalls, txEnq, writers, drainedInCall, primed,
                    rxSide >>

\* push, step 2 (full only): the read index moves past the oldest element
PushDrop ==
    /\ Foreground("push_drop")
    /\ _txbuf' = DropOldest(_txbuf)
    /\ pc' = "push_store"
    /\ UNCHANGED << m_block_on_full, txAttached, hwFifo, hwOut, cur, c, ovw,
                    retval, isr, ncalls, history, rxSide >>

\* push, step 3: the element is written at the write index
PushStore ==
    /\ Foreground("push_store")
    /\ _txbuf' = Store(_txbuf, c)
    /\ txEnq' = Append(txEnq, c)
    /\ pc' = "push_adv"
    /\ UNCHANGED << m_block_on_full, txAttached, hwFifo, hwOut, cur, c, ovw,
                    retval, isr, ncalls, landedFull, writers, drainedInCall,
                    primed, rxSide >>

\* push, step 4: the write index moves on
PushAdv ==
    /\ Foreground("push_adv")
    /\ _txbuf' = AdvWrite(_txbuf)
    /\ pc' = IF ovw THEN LoopPc(cur) ELSE "push_count"
    /\ UNCHANGED << m_block_on_full, txAttached, hwFifo, hwOut, cur, c, ovw,
                    retval, isr, ncalls, history, rxSide >>

\* push, step 5 (not full only): the count goes up
PushCount ==
    /\ Foreground("push_count")
    /\ _txbuf' = IncCount(_txbuf)
    /\ pc' = LoopPc(cur)
    /\ UNCHANGED << m_block_on_full, txAttached, hwFifo, hwOut, cur, c, ovw,
                    retval, isr, ncalls, history, rxSide >>

\* the return values with puts returning ptr - s, the terminator not counted
RetValWithoutTerminator(call) ==
    CASE call.op = "putc" -> call.arg
      [] OTHER -> call.n

\* return c / return (ptr - s) + 1 / return ptr - (const char*)s
RetVal(call) ==
    CASE call.op = "putc" -> call.arg
      [] call.op = "puts" -> call.n + 1
      [] OTHER -> call.n

\* serial_putc(&_serial, (int)c), called by `who` (the handler or prime); a
\* call on a busy UART is recorded as the writer "busy"
serial_putc(ch, who) ==
    /\ hwOut' = Append(hwOut, ch)
    /\ hwFifo' = hwFifo + 1
    /\ writers' = writers \cup {who} \cup
                      (IF serial_writable THEN {} ELSE {"busy"})

\* the loop of txIrq() goes round again after this pass
txIrqGoesOn == serial_writable /\ ~empty(_txbuf)

\* txIrq() without its attach(NULL, TxIrq) on an empty buffer
txIrqPopKeepsAttached ==
    IF serial_writable /\ ~empty(_txbuf)
    THEN /\ _txbuf' = pop(_txbuf).buf
         /\ drainedInCall' = TRUE
         /\ UNCHANGED txAttached
    ELSE UNCHANGED << _txbuf, drainedInCall, txAttached >>

\* one pass of the loop of txIrq() up to the pop:
\* while (serial_writable) { if (!empty) { pop(c); ... } else { detach; break } }
txIrqPop ==
    IF serial_writable
    THEN IF ~empty(_txbuf)
         THEN /\ _txbuf' = pop(_txbuf).buf
              /\ drainedInCall' = TRUE
              /\ UNCHANGED txAttached
         ELSE /\ txAttached' = FALSE
              /\ UNCHANGED << _txbuf, drainedInCall >>
    ELSE UNCHANGED << _txbuf, drainedInCall, txAttached >>

\* prime() without its test of serial_writable: it always drains
PrimeCheckAlways ==
    /\ Foreground("prime_check")
    /\ pc' = "prime_detach"
    /\ primed' = IF serial_writable THEN "ran" ELSE "skipped"
    /\ cur' = [cur EXCEPT !.primes = cur.primes + 1]
    /\ UNCHANGED << _txbuf, m_block_on_full, txAttached, hwFifo, hwOut, c, ovw,
                    retval, isr, ncalls, txEnq, landedFull, writers,
                    drainedInCall, rxSide >>

\* prime(): if (serial_writable(&_serial))
PrimeCheck ==
    /\ Foreground("prime_check")
    /\ IF serial_writable
       THEN /\ pc' = "prime_detach"
            /\ primed' = "ran"
            /\ UNCHANGED retval
       ELSE /\ pc' = "idle"
            /\ primed' = "skipped"
            /\ retval' = RetVal(cur)
    /\ cur' = [cur EXCEPT !.primes = cur.primes + 1]
    /\ UNCHANGED << _txbuf, m_block_on_full, txAttached, hwFifo, hwOut, c, ovw,
                    isr, ncalls, txEnq, landedFull, writers, drainedInCall,
                    rxSide >>

\* prime() without its attach(NULL, TxIrq): the handler stays attached
PrimeNoDetach ==
    /\ Foreground("prime_detach")
    /\ pc' = "prime_drain"
    /\ UNCHANGED << _txbuf, m_block_on_full, txAttached, hwFifo, hwOut, cur, c,
                    ovw, retval, isr, ncalls, history, rxSide >>

\* prime(): RawSerial::attach(NULL, RawSerial::TxIrq)
PrimeDetach ==
    /\ Foreground("prime_detach")
    /\ txAttached' = FALSE
    /\ pc' = "prime_drain"
    /\ UNCHANGED << _txbuf, m_block_on_full, hwFifo, hwOut, cur, c, ovw, retval,
                    isr, ncalls, history, rxSide >>

\* prime(): BufferedSerial2::txIrq(), a pass of its loop up to the pop
PrimeDrain ==
    /\ Foreground("prime_drain")
    /\ txIrqPop
    /\ c' = IF txIrqGoesOn THEN pop(_txbuf).val ELSE c
    /\ pc' = IF txIrqGoesOn THEN "prime_putc" ELSE "prime_attach"
    /\ UNCHANGED << m_block_on_full, hwFifo, hwOut, cur, ovw, retval, isr,
                    ncalls, txEnq, landedFull, writers, primed, rxSide >>

\* prime(): BufferedSerial2::txIrq(), the serial_putc of the pass, whatever the
\* UART has become since the pass tested serial_writable
PrimePutc ==
    /\ Foreground("prime_putc")
    /\ serial_putc(c, "prime")
    /\ pc' = "prime_drain"
    /\ UNCHANGED << _txbuf, m_block_on_full, txAttached, cur, c, ovw, retval,
                    isr, ncalls, txEnq, landedFull, drainedInCall, primed,
                    rxSide >>

\* prime() without its attach(callback(this, &txIrq), RawSerial::TxIrq)
PrimeNoAttach ==
    /\ Foreground("prime_attach")
    /\ pc' = "idle"
    /\ retval' = RetVal(cur)
    /\ UNCHANGED << _txbuf, m_block_on_full, txAttached, hwFifo, hwOut, cur, c,
                    ovw, isr, ncalls, history, rxSide >>

\* prime(): RawSerial::attach(callback(this, &txIrq), RawSerial::TxIrq); return
PrimeAttach ==
    /\ Foreground("prime_attach")
    /\ txAttached' = TRUE
    /\ pc' = "idle"
    /\ retval' = RetVal(cur)
    /\ UNCHANGED << _txbuf, m_block_on_full, hwFifo, hwOut, cur, c, ovw, isr,
                    ncalls, history, rxSide >>

\* the UART raises the transmit interrupt: the attached handler starts
TxIrqEnter ==
    /\ isr = "idle"
    /\ txAttached
    /\ serial_writable
    /\ isr' = "txIrq"
    /\ UNCHANGED << _txbuf, m_block_on_full, txAttached, hwFifo, hwOut, pc, cur,
                    c, ovw, retval, ncalls, history, rxSide >>

\* the handler txIrq(), one pass of its loop; nothing preempts a handler
TxIrqRun ==
    /\ isr = "txIrq"
    /\ txIrqPop
    /\ IF txIrqGoesOn
       THEN serial_putc(pop(_txbuf).val, "irq")
       ELSE UNCHANGED << hwOut, hwFifo, writers >>
    /\ isr' = IF txIrqGoesOn THEN "txIrq" ELSE "idle"
    /\ UNCHANGED << m_block_on_full, pc, cur, c, ovw, retval, ncalls, txEnq,
                    landedFull, primed, rxSide >>

\* the UART has shifted a byte out
HwShift ==
    /\ hwFifo > 0
    /\ hwFifo' = hwFifo - 1
    /\ UNCHANGED << _txbuf, m_block_on_full, txAttached, hwOut, pc, cur, c, ovw,
                    retval, isr, ncalls, history, rxSide >>

Call ==
    \/ putc(Len(txEnq) + 1)
    \/ \E s \in {NULL} \cup {Ptr(Fresh(n)) : n \in 0..MaxLen} : puts(s)
    \/ \E length \in 0..MaxLen : \E s \in {NULL, Ptr(Fresh(length))} :
           write(s, length)

Push == PushTest \/ PushDrop \/ PushStore \/ PushAdv \/ PushCount

Prime == PrimeCheck \/ PrimeDetach \/ PrimeDrain \/ PrimePutc \/ PrimeAttach

\* the destructor without its attach(NULL, RawSerial::TxIrq)
DtorTxKeepsHandler ==
    /\ Foreground("dtor_tx")
    /\ pc' = "destroyed"
    /\ UNCHANGED << cur, c, retval, isr, ncalls, txSide, rxSide >>

\* ~BufferedSerial2(), first statement: RawSerial::attach(NULL, RawSerial::RxIrq)
DtorRx ==
    /\ Foreground("idle")
    /\ rxAttached' = FALSE
    /\ pc' = "dtor_tx"
    /\ UNCHANGED << _rxbuf, rxHw, rxIn, rxOut, rxLanded, checked, rxUnchecked,
                    rxRaced, rxRun, cur, c, retval, isr, ncalls, txSide >>

\* ~BufferedSerial2(), second statement: RawSerial::attach(NULL, RawSerial::TxIrq);
\* the port is gone after it and nothing calls it any more
DtorTx ==
    /\ Foreground("dtor_tx")
    /\ txAttached' = FALSE
    /\ pc' = "destroyed"
    /\ UNCHANGED << _txbuf, m_block_on_full, hwFifo, hwOut, ovw, cur, c, retval,
                    isr, ncalls, history, rxSide >>

Dtor == DtorRx \/ DtorTx

Sync == sync \/ SyncExit

Next ==
    \/ Call
    \/ Sync
    \/ Dtor
    \/ SpinExit
    \/ PutsNl
    \/ Push
    \/ Prime
    \/ TxIrqEnter
    \/ TxIrqRun
    \/ HwShift

Spec == Init /\ [][Next]_vars

\* ---------------------------------------------------------- receive side
InPop == pc \in {"pop_test", "pop_load", "pop_adv", "pop_count"}

CanCallRx == Foreground("idle") /\ ncalls < MaxRxCalls

Min(a, b) == IF a < b THEN a ELSE b

\* readable() told the wrong way round
readableInverted == empty(_rxbuf)

\* bool readable() const
readable == IF empty(_rxbuf) THEN FALSE ELSE TRUE

ReadableCall ==
    /\ CanCallRx
    /\ ncalls' = ncalls + 1
    /\ cur' = [NoCall EXCEPT !.op = "readable"]
    /\ retval' = readable
    /\ checked' = readable
    /\ UNCHANGED << pc, c, isr, txSide, _rxbuf, rxAttached, rxHw, rxIn, rxOut,
                    rxLanded, rxUnchecked, rxRaced, rxRun >>

\* getc with char c; left as it was: the local is not set to 0
getcKeepsC ==
    /\ CanCallRx
    /\ ncalls' = ncalls + 1
    /\ cur' = [NoCall EXCEPT !.op = "getc"]
    /\ pc' = "pop_test"
    /\ checked' = FALSE
    /\ rxUnchecked' = (rxUnchecked \/ ~checked)
    /\ UNCHANGED << c, retval, isr, txSide, _rxbuf, rxAttached, rxHw, rxIn,
                    rxOut, rxLanded, rxRaced, rxRun >>

\* int getc(void) / int _getc(): char c = 0; _rxbuf.pop(c) begins
getc ==
    /\ CanCallRx
    /\ ncalls' = ncalls + 1
    /\ cur' = [NoCall EXCEPT !.op = "getc"]
    /\ c' = 0
    /\ pc' = "pop_test"
    /\ checked' = FALSE
    /\ rxUnchecked' = (rxUnchecked \/ ~checked)
    /\ UNCHANGED << retval, isr, txSide, _rxbuf, rxAttached, rxHw, rxIn, rxOut,
                    rxLanded, rxRaced, rxRun >>

\* getc returns c
GetcReturn(ch) ==
    /\ pc' = "idle"
    /\ retval' = ch
    /\ rxOut' = Append(rxOut, ch)
    /\ rxRun' = IF rxRun.pushes = 0 THEN rxRun
                ELSE [rxRun EXCEPT !.pops = rxRun.pops + 1]

\* pop, step 1: if (!empty()); an empty buffer leaves c as it was
PopTest ==
    /\ Foreground("pop_test")
    /\ IF empty(_rxbuf)
       THEN GetcReturn(c)
       ELSE /\ pc' = "pop_load"
            /\ UNCHANGED << retval, rxOut, rxRun >>
    /\ cur' = [cur EXCEPT !.before = _rxbuf, !.base = Len(rxIn)]
    /\ UNCHANGED << c, isr, ncalls, txSide, _rxbuf, rxAttached, rxHw, rxIn,
                    rxLanded, checked, rxUnchecked, rxRaced >>

\* pop, step 2: the element at the read index is taken
PopLoad ==
    /\ Foreground("pop_load")
    /\ c' = Load(_rxbuf)
    /\ pc' = "pop_adv"
    /\ UNCHANGED << cur, retval, isr, ncalls, txSide, rxSide >>

\* pop, step 3: the read index moves on
PopAdv ==
    /\ Foreground("pop_adv")
    /\ _rxbuf' = AdvRead(_rxbuf)
    /\ pc' = "pop_count"
    /\ UNCHANGED << cur, c, retval, isr, ncalls, txSide, rxAttached, rxHw, rxIn,
                    rxOut, rxLanded, checked, rxUnchecked, rxRaced, rxRun >>

\* pop, step 4: the count goes down; getc returns the element
PopCount ==
    /\ Foreground("pop_count")
    /\ _rxbuf' = DecCount(_rxbuf)
    /\ GetcReturn(c)
    /\ UNCHANGED << cur, c, isr, ncalls, txSide, rxAttached, rxHw, rxIn,
                    rxLanded, checked, rxUnchecked, rxRaced >>

\* the handler rxIrq(): if (serial_readable) _rxbuf.push(serial_getc);
\* it preempts the foreground between two steps and is not preempted
rxIrq ==
    /\ isr = "idle"
    /\ rxAttached
    /\ rxHw # <<>>
    /\ _rxbuf' = push(_rxbuf, Head(rxHw))
    /\ rxHw' = <<>>
    /\ rxIn' = Append(rxIn, Head(rxHw))
    /\ rxLanded' = (rxLanded \/ full(_rxbuf))
    /\ rxRaced' = (rxRaced \/ InPop)
    /\ rxRun' = IF InPop THEN [pushes |-> 0, pops |-> 0]
                ELSE IF rxRun.pops > 0 THEN [pushes |-> 1, pops |-> 0]
                ELSE [pushes |-> Min(rxRun.pushes + 1, RxCap + 1), pops |-> 0]
    /\ UNCHANGED << pc, cur, c, retval, isr, ncalls, txSide, rxAttached, rxOut,
                    checked, rxUnchecked >>

\* a byte arrives at the UART: a zero byte or a fresh value
HwRecv(b) ==
    /\ rxHw = <<>>
    /\ Len(rxIn) < MaxRecv
    /\ rxHw' = <<b>>
    /\ UNCHANGED << pc, cur, c, retval, isr, ncalls, txSide, _rxbuf, rxAttached,
                    rxIn, rxOut, rxLanded, checked, rxUnchecked, rxRaced, rxRun >>

Pop == PopTest \/ PopLoad \/ PopAdv \/ PopCount

NextRx ==
    \/ ReadableCall
    \/ getc
    \/ Pop
    \/ Dtor
    \/ rxIrq
    \/ \E b \in {0, Len(rxIn) + 1} : HwRecv(b)

SpecRx == Init /\ [][NextRx]_vars

\* the handlers, fired whenever the UART asks, and the foreground never
\* stopping inside a call; new calls are up to the caller
FairSpec ==
    /\ Spec
    /\ WF_vars(HwShift)
    /\ WF_vars(TxIrqEnter)
    /\ WF_vars(TxIrqRun)
    /\ WF_vars(SpinExit \/ PutsNl \/ Push \/ Prime \/ SyncExit)

\* ---------------------------------------------------------------- claims
IsPrefix(s, t) == Len(s) <= Len(t) /\ SubSeq(t, 1, Len(s)) = s

\* s is t with some elements left out
RECURSIVE IsSubseq(_, _)
IsSubseq(s, t) ==
    IF s = <<>> THEN TRUE
    ELSE IF t = <<>> THEN FALSE
    ELSE IF Head(s) = Head(t) THEN IsSubseq(Tail(s), Tail(t))
    ELSE IsSubseq(s, Tail(t))

LastN(s, n) == SubSeq(s, Len(s) - n + 1, Len(s))

InPush == pc \in {"push_test", "push_drop", "push_store", "push_adv", "push_count"}

InPrimeDrain == pc \in {"prime_drain", "prime_putc"}

\* C1: as long as no push has landed on a full tx buffer, the bytes handed to
\* the UART are a prefix of the bytes enqueued: same order, nothing skipped,
\* nothing twice, nothing that was never enqueued.
C1_HwOutPrefixOfEnqueued == ~landedFull => IsPrefix(hwOut, txEnq)

\* C1 witness: both the handler and prime have written, three bytes went out
\* and a fourth is queued behind them.
C1_Witness ==
    /\ ~landedFull
    /\ writers = {"irq", "prime"}
    /\ Len(hwOut) >= 3
    /\ Len(txEnq) > Len(hwOut)

\* C2: the TxIrq handler never runs while prime's drain is in progress, and
\* the handler is detached for the whole of that drain.
C2_DrainExclusion == InPrimeDrain => (isr # "txIrq" /\ ~txAttached)

\* C2 witness: prime is draining a byte after the handler has drained others.
C2_Witness == pc = "prime_putc" /\ "irq" \in writers /\ ~txAttached

\* C3: with block_on_full, no push of a write-family call lands on a full
\* tx buffer.
C3_BlockingNeverOverwrites == m_block_on_full => ~landedFull

\* C4: once a call has primed (hardware ready) and while no further call is
\* made, the tx buffer ends empty with the TxIrq handler detached, and a
\* detached handler stays detached while the foreground makes no call.
C4_DrainsThenDisabled ==
    /\ (pc = "idle" /\ primed = "ran")
          ~> (pc # "idle" \/ (empty(_txbuf) /\ ~txAttached /\ isr = "idle"))
    /\ [][(pc = "idle" /\ pc' = "idle" /\ ~txAttached) => ~txAttached']_vars

\* C4 witness: the handler has drained what prime left and detached itself.
C4_Witness ==
    /\ pc = "idle"
    /\ primed = "ran"
    /\ "irq" \in writers
    /\ empty(_txbuf)
    /\ ~txAttached
    /\ isr = "idle"
    /\ hwOut = txEnq
    /\ Len(hwOut) >= 3

\* bytes the running call has stored
Enqueued(call) == call.n + (IF call.nl THEN 1 ELSE 0)

\* C5: without block_on_full a call never waits in the spin, and a call that
\* stored more bytes than the capacity, with no pop meanwhile, leaves exactly
\* the last TxCap bytes stored, in order.
C5_NonBlockingBurst ==
    ~m_block_on_full =>
        /\ Foreground("spin") => ENABLED SpinExit
        /\ (pc = "prime_check" /\ Enqueued(cur) > TxCap /\ ~drainedInCall)
              => Contents(_txbuf) = LastN(txEnq, TxCap)

\* C5 witness: a write of more than TxCap bytes is about to prime, undrained.
C5_Witness ==
    /\ ~m_block_on_full
    /\ pc = "prime_check"
    /\ cur.op = "write"
    /\ cur.n > TxCap
    /\ ~drainedInCall
    /\ txAttached

C7_PoppedInPushOrder == IsSubseq(hwOut, txEnq)

\* the indices and the count of a buffer are in range
InRange(b, cap) ==
    /\ b.count \in 0..cap
    /\ b.rd \in 0..(cap - 1)
    /\ b.wr \in 0..(cap - 1)

Zeros(n) == [i \in 1..n |-> 0]

\* C8: after more than RxCap pushes in a row with no pop between them, the
\* pops that follow return the last RxCap values pushed, in push order, the
\* buffer is then empty and a further pop returns nothing (getc hands back
\* its initial 0); the count and the indices stay in range throughout.
C8_OverwriteOldest ==
    /\ InRange(_rxbuf, RxCap)
    /\ (pc = "idle" /\ rxRun.pushes > RxCap) =>
          LET last == LastN(rxIn, RxCap)
              k == rxRun.pops
              got == Min(k, RxCap)
          IN  /\ LastN(rxOut, k) = SubSeq(last, 1, got) \o Zeros(k - got)
              /\ Contents(_rxbuf) = SubSeq(last, got + 1, RxCap)
              /\ (k >= RxCap => empty(_rxbuf))

\* C8 witness: RxCap + 1 pushes, RxCap pops and one more pop on the empty
\* buffer.
C8_Witness ==
    /\ pc = "idle"
    /\ rxRun.pushes > RxCap
    /\ rxRun.pops = RxCap + 1
    /\ rxLanded

\* C9: while no byte has arrived on a full rx buffer and every getc followed
\* a readable() that returned true, what getc returned is a prefix of what
\* the handler received, and with no call in flight readable() is true
\* exactly when a received byte has not been returned yet.
C9_ReceivedInOrder ==
    (~rxLanded /\ ~rxUnchecked) =>
        /\ IsPrefix(rxOut, rxIn)
        /\ pc = "idle" => (readable <=> Len(rxOut) < Len(rxIn))

\* C9 witness: two bytes returned, the handler having pushed in the middle
\* of a getc, and one more waiting.
C9_Witness ==
    /\ ~rxLanded
    /\ ~rxUnchecked
    /\ rxRaced
    /\ pc = "idle"
    /\ Len(rxOut) >= 2
    /\ Len(rxIn) > Len(rxOut)

\* C10: a write call with a null pointer or a zero length returns 0 at once
\* and changes nothing of the transmit side.
C10_NullWriteIsNoop ==
    [][(/\ pc = "idle"
        /\ ncalls' = ncalls + 1
        /\ cur'.op = "write"
        /\ (cur'.null \/ cur'.len = 0))
       => (/\ pc' = "idle"
           /\ retval' = 0
           /\ UNCHANGED << _txbuf, txAttached, hwFifo, hwOut, txEnq, primed >>)]_vars

\* C10 witness: write(ptr, 0) has returned 0 with bytes queued and the
\* handler attached.
C10_Witness ==
    /\ pc = "idle"
    /\ cur.op = "write"
    /\ ~cur.null
    /\ cur.len = 0
    /\ retval = 0
    /\ ~empty(_txbuf)
    /\ txAttached

\* the bytes the call has stored in the transmit buffer, in order
EnqueuedBy(call) == SubSeq(txEnq, call.base + 1, Len(txEnq))

\* the foreground is in no call: the last one has returned
Returned == pc \in {"idle", "dtor_tx", "destroyed"}

\* C11: puts(s) with s non-null and n bytes long stores exactly those n bytes
\* in order, then one '\n', and returns n + 1; puts(NULL) returns 0 and stores
\* nothing.
C11_PutsStoresLineAndCountsIt ==
    cur.op = "puts" =>
        IF cur.null
        THEN Returned /\ retval = 0 /\ EnqueuedBy(cur) = <<>>
        ELSE /\ IsPrefix(EnqueuedBy(cur), cur.str \o <<NL>>)
             /\ Returned =>
                    /\ EnqueuedBy(cur) = cur.str \o <<NL>>
                    /\ retval = Len(cur.str) + 1

C11_Witness ==
    /\ pc = "idle"
    /\ cur.op = "puts"
    /\ ~cur.null
    /\ Len(cur.str) >= 2
    /\ EnqueuedBy(cur) = cur.str \o <<NL>>
    /\ retval = Len(cur.str) + 1

C11_WitnessNull ==
    pc = "idle" /\ cur.op = "puts" /\ cur.null /\ retval = 0 /\ txEnq # <<>>

InPrime ==
    pc \in {"prime_check", "prime_detach", "prime_drain", "prime_putc",
            "prime_attach"}

\* all the bytes the call is to store
ToStore(call) == IF call.op = "puts" THEN call.str \o <<NL>> ELSE call.str

\* C12: a putc, puts or write call that stores at least one byte calls prime
\* exactly once, and only after its last byte is stored: never while it is
\* still waiting for room or pushing.
C12_PrimeOncePerCallAfterLastByte ==
    (cur.op \in {"putc", "puts", "write"} /\ ~cur.null) =>
        /\ (pc = "spin" \/ pc = "puts_nl" \/ InPush) => cur.primes = 0
        /\ InPrime =>
               /\ cur.primes = IF pc = "prime_check" THEN 0 ELSE 1
               /\ EnqueuedBy(cur) = ToStore(cur)
        /\ (Returned /\ EnqueuedBy(cur) # <<>>) =>
               cur.primes = 1 /\ EnqueuedBy(cur) = ToStore(cur)

C12_Witness ==
    /\ pc = "idle"
    /\ cur.op = "write"
    /\ Len(EnqueuedBy(cur)) = MaxLen
    /\ cur.primes = 1
    /\ primed = "ran"

\* a step of sync() itself: the call or its return
SyncStep == pc' # pc /\ (pc = "sync_spin" \/ pc' = "sync_spin")

\* C13: sync() returns only when the transmit buffer is empty, it changes
\* neither buffer nor the state of the transmit interrupt, and, called after
\* any write-family calls, it does return, the UART and the attached handler
\* going on running.
C13_SyncWaitsForEmptyAndReturns ==
    /\ [][(SyncStep /\ pc' = "idle") => (empty(_txbuf) /\ retval' = 0)]_vars
    /\ [][SyncStep => UNCHANGED << _txbuf, _rxbuf, txAttached >>]_vars
    /\ (pc = "sync_spin") ~> (pc = "idle")

\* sync() has returned and the UART was given bytes while it waited
C13_Witness ==
    /\ pc = "idle"
    /\ cur.op = "sync"
    /\ retval = 0
    /\ Len(hwOut) > cur.base + 1
    /\ empty(_txbuf)

\* C14: once the destructor has run both handlers are detached, whatever the
\* transmit interrupt and the buffers were before, and no handler runs any
\* more: nothing is pushed to the receive buffer, popped from the transmit
\* buffer or written to the UART.
C14_NoHandlerAfterTeardown ==
    /\ [](pc = "destroyed" => (~rxAttached /\ ~txAttached /\ isr = "idle"))
    /\ [][pc = "destroyed" =>
              UNCHANGED << _txbuf, _rxbuf, hwOut, rxIn, isr >>]_vars

\* torn down with bytes still queued, the UART ready for one and the handler
\* attached until the destructor detached it
C14_Witness ==
    /\ pc = "destroyed"
    /\ ~empty(_txbuf)
    /\ serial_writable
    /\ primed = "ran"
    /\ ~txAttached

\* the foreground is inside putc, puts or write
InWriteCall == pc = "spin" \/ pc = "puts_nl" \/ InPush \/ InPrime

\* C15: with block_on_full set every putc, puts and write call returns, the
\* UART and the attached handler going on running, a write or puts longer
\* than the transmit buffer begun with the handler detached included.
C15_BlockingCallsReturn == (m_block_on_full /\ InWriteCall) ~> (pc = "idle")

\* the calls that do return: those of a port that does not block
C15_NonBlockingCallsReturn == (~m_block_on_full /\ InWriteCall) ~> (pc = "idle")

\* a call waiting for room that nothing will make: the handler that would
\* drain the buffer is detached and prime() comes only after the loop
C15_StuckInSpin ==
    /\ pc = "spin"
    /\ SpinCond
    /\ ~txAttached
    /\ isr = "idle"
    /\ hwFifo = 0

\* the foreground is in no putc, puts or write call, and the port is alive
AtRest == pc = "idle" \/ pc = "sync_spin"

\* C16: no wake-up is lost: whenever the foreground is outside the
\* write-family calls, each of them having been through its prime(), a
\* transmit buffer that holds a byte has its handler attached.
C16_QueuedBytesHaveHandler == (AtRest /\ ~empty(_txbuf)) => txAttached

\* bytes left queued by a prime() that found the UART busy and did nothing
C16_Witness ==
    /\ pc = "idle"
    /\ primed = "skipped"
    /\ ~empty(_txbuf)
    /\ txAttached
    /\ isr = "idle"

\* the port is alive and neither a handler nor prime() is running
OutsideHandlerAndPrime ==
    isr = "idle" /\ ~InPrime /\ pc # "dtor_tx" /\ pc # "destroyed"

\* C17 as claimed: outside a running handler or prime(), an attached transmit
\* handler means the transmit buffer holds a byte.
C17_AttachedImpliesQueued ==
    (OutsideHandlerAndPrime /\ txAttached) => ~empty(_txbuf)

\* C17 as amended: the handler returns attached only when the UART is busy,
\* having detached itself if it found the buffer empty with the UART ready;
\* so an attached handler with an empty buffer, as prime() leaves it after
\* draining everything, lasts only until the handler next runs, which it
\* does while the foreground stays outside putc, puts and write.
C17_AttachedAndEmptyIsTransient ==
    /\ [][(isr = "txIrq" /\ isr' = "idle" /\ txAttached')
              => (empty(_txbuf') => ~serial_writable')]_vars
    /\ [][(isr = "txIrq" /\ isr' = "idle" /\ empty(_txbuf) /\ serial_writable)
              => ~txAttached']_vars
    /\ (AtRest /\ txAttached /\ empty(_txbuf)) ~> (~txAttached \/ ~AtRest)

\* prime() has drained the buffer into the UART and attached the handler; the
\* UART is ready again and the handler has not yet run
C17_Witness ==
    /\ pc = "idle"
    /\ isr = "idle"
    /\ primed = "ran"
    /\ txAttached
    /\ empty(_txbuf)
    /\ serial_writable

\* C18: prime() called while the UART is busy does nothing: the transmit
\* buffer with its indices, the bytes given to the UART and the attachment of
\* the handler are after the call what they were before it, and the call is
\* over in that one step.
C18_PrimeOnBusyUartIsNoop ==
    [][(pc = "prime_check" /\ pc' # pc /\ ~serial_writable) =>
           /\ pc' = "idle"
           /\ UNCHANGED << _txbuf, hwOut, hwFifo, txAttached >>]_vars

\* prime() has returned from a busy UART, the byte of its call left queued
C18_Witness ==
    /\ pc = "idle"
    /\ primed = "skipped"
    /\ cur.primes = 1
    /\ ~serial_writable
    /\ Contents(_txbuf) = <<Len(txEnq)>>

\* C19: every byte the UART is given comes from the drain, run as the handler
\* or from prime(), and is given while the UART can take one: nothing writes
\* to a busy UART.
C19_WritesOnlyByDrainOnReadyUart ==
    /\ writers \subseteq {"irq", "prime"}
    /\ hwFifo <= HwDepth
    /\ pc = "prime_putc" => (serial_writable /\ ~txAttached /\ isr = "idle")

\* both the handler and prime() have written, prime() about to write again
C19_Witness ==
    /\ writers = {"irq", "prime"}
    /\ pc = "prime_putc"
    /\ Len(hwOut) >= 2

\* the bytes the handler has pushed since the pop of the call looked
PushedSince(call) == SubSeq(rxIn, call.base + 1, Len(rxIn))

\* C20: getc (and _getc, the same code) on an empty receive buffer returns 0
\* and leaves the buffer as it was; on a non-empty one it returns the oldest
\* unread byte and removes exactly that byte. Bytes the handler pushes in
\* the meantime are added behind, as long as they find room.
C20_GetcPopsOldestOrReturnsZero ==
    (pc = "idle" /\ cur.op = "getc"
       /\ Len(Contents(cur.before)) + Len(PushedSince(cur)) <= RxCap) =>
        IF empty(cur.before)
        THEN /\ retval = 0
             /\ Contents(_rxbuf) = PushedSince(cur)
             /\ PushedSince(cur) = <<>> => _rxbuf = cur.before
        ELSE /\ retval = Head(Contents(cur.before))
             /\ Contents(_rxbuf) =
                    Tail(Contents(cur.before)) \o PushedSince(cur)

\* a getc that found the buffer empty and returned 0, the call before it
\* having read the last byte received, which was not zero
C20_Witness ==
    /\ pc = "idle"
    /\ cur.op = "getc"
    /\ empty(cur.before)
    /\ _rxbuf = cur.before
    /\ retval = 0
    /\ Len(rxOut) >= 2
    /\ rxOut[Len(rxOut) - 1] # 0
    /\ rxOut[Len(rxOut) - 1] = rxIn[Len(rxIn)]

\* a getc that took the older of two buffered bytes and left the other
C20_WitnessOldest ==
    /\ pc = "idle"
    /\ cur.op = "getc"
    /\ Len(Contents(cur.before)) = 2
    /\ retval = Head(Contents(cur.before))
    /\ retval # 0
    /\ Len(Contents(_rxbuf)) = 1
====
